---- MODULE Spec2Model ----
(***************************************************************************)
(* Multi-pass result reconciliation of the PCB consistency checker:        *)
(* the table model, the TF-IDF matcher, the union reducer and the two      *)
(* pass orchestrators (multiPassAnalysis.ts merges inside the pass loop,   *)
(* multiPassAnalysisNew.ts merges after it).                               *)
(*                                                                         *)
(* Text is a sequence of lines (the result of split('\n')); the empty      *)
(* string is the one-line text holding the empty line.  A line is either   *)
(* free text (bar = FALSE, at most one cell) or a '|'-delimited line       *)
(* "|c1|c2|...|cn|" (bar = TRUE); a cell is its trimmed sequence of words. *)
(***************************************************************************)
EXTENDS Integers, Sequences, FiniteSets, TLC

(***************************************************************************)
(* Bounds                                                                  *)
(***************************************************************************)
MaxPasses == 3

(***************************************************************************)
(* Lines and texts                                                         *)
(***************************************************************************)
\* the element of a one-element set; The({e(x) : x \in {v}}) is e with the
\* local constant x = v, computed once
The(S) == CHOOSE x \in S : TRUE

\* the function f itself, stored as an explicit table
Stored(f) == f @@ << >>

BlankLine == [bar |-> FALSE, cells |-> << >>]

Prose(words) == [bar |-> FALSE, cells |-> << words >>]

BarLine(cells) == [bar |-> TRUE, cells |-> cells]

HeaderLine == BarLine(<< <<"Sources of Conflict">>, <<"Nature of Inconsistency">>, <<"Recommended Fix">> >>)

SeparatorLine == BarLine(<< <<"---">>, <<"---">>, <<"---">> >>)

EmptyString == << BlankLine >>

\* '| Sources of Conflict | Nature of Inconsistency | Recommended Fix |\n|---|---|---|'
EmptyTable == << HeaderLine, SeparatorLine >>

IsBlank(line) == ~line.bar /\ \A i \in 1..Len(line.cells) : line.cells[i] = << >>

\* line.includes(label) for a column label or the dash run
LineIncludes(line, word) ==
  \E i \in 1..Len(line.cells) : \E k \in 1..Len(line.cells[i]) : line.cells[i][k] = word

\* line.includes('|---'): a cell that begins with dashes right after a delimiter
IncludesBarDashes(line) ==
  line.bar /\ \E i \in 1..Len(line.cells) : line.cells[i] # << >> /\ line.cells[i][1] = "---"

\* line.includes('|---|') / line.includes('---|'): a cell made of dashes only
IncludesDashCell(line) ==
  line.bar /\ \E i \in 1..Len(line.cells) : line.cells[i] = <<"---">>

\* number of '|' characters of a line
PipeCount(line) == IF line.bar THEN Len(line.cells) + 1 ELSE 0

NonEmptyCell(cell) == cell # << >>

RowLine(row) == BarLine(<< row.sources, row.nature, row.recommendedFix >>)

(***************************************************************************)
(* parseMarkdownTable                                                      *)
(***************************************************************************)
\* the body of the loop over the non-empty lines
ParseLine(state, line) ==
  IF LineIncludes(line, "Sources of Conflict") /\ LineIncludes(line, "Nature of Inconsistency")
    THEN [inTable |-> TRUE, rows |-> state.rows]
  ELSE IF state.inTable /\ IncludesBarDashes(line)
    THEN state
  ELSE IF state.inTable /\ line.bar /\ ~IncludesDashCell(line)
    THEN LET parts == SelectSeq(line.cells, NonEmptyCell) IN
         IF Len(parts) >= 3
           THEN [inTable |-> TRUE,
                 rows |-> Append(state.rows,
                            [sources |-> parts[1], nature |-> parts[2], recommendedFix |-> parts[3]])]
           ELSE state
  ELSE state

RECURSIVE ParseFrom(_, _, _)
ParseFrom(lines, i, state) ==
  IF i > Len(lines) THEN state.rows
  ELSE The({ParseFrom(lines, n, next) : n \in {i + 1}, next \in {ParseLine(state, lines[i])}})

\* the parser with inTable set from the start
parseMarkdownTable_InTableAtStart(markdown) ==
  LET NotBlank(line) == ~IsBlank(line)
  IN The({ParseFrom(lines, 1, [inTable |-> TRUE, rows |-> << >>])
            : lines \in {SelectSeq(markdown, NotBlank)}})

parseMarkdownTable(markdown) ==
  LET NotBlank(line) == ~IsBlank(line)
  IN The({ParseFrom(lines, 1, [inTable |-> FALSE, rows |-> << >>])
            : lines \in {SelectSeq(markdown, NotBlank)}})

(***************************************************************************)
(* Tokenizer                                                               *)
(***************************************************************************)
STOP_WORDS == {"to", "the", "br"}

\* toLowerCase on the words of the model's alphabet
LowerCase(w) ==
  CASE w = "Change" -> "change"
    [] w = "Update" -> "update"
    [] OTHER -> w

\* toLowerCase followed by the replacement of punctuation by spaces
Normalize(w) ==
  CASE w = "$55" -> "55"
    [] w = "22." -> "22"
    [] OTHER -> LowerCase(w)

tokenize(text) ==
  LET NotStop(w) == w \notin STOP_WORDS
  IN SelectSeq([i \in 1..Len(text) |-> Normalize(text[i])], NotStop)

TokenSet(text) == {Normalize(text[i]) : i \in 1..Len(text)} \ STOP_WORDS

buildVocabulary(documents) == UNION {TokenSet(documents[d]) : d \in 1..Len(documents)}

(***************************************************************************)
(* TF-IDF.  Math.log is tabulated as round(10 * ln k); a vector component  *)
(* tf * idf = count/len * idf is kept as the integer count * idf10, which   *)
(* scales every non-zero vector by a positive factor and leaves the cosine *)
(* and its zero test unchanged.                                            *)
(***************************************************************************)
LnScaled(k) ==
  CASE k = 1 -> 0   [] k = 2 -> 7   [] k = 3 -> 11  [] k = 4 -> 14
    [] k = 5 -> 16  [] k = 6 -> 18  [] k = 7 -> 19  [] k = 8 -> 21
    [] k = 9 -> 22  [] k = 10 -> 23 [] k = 11 -> 24 [] OTHER -> 25

CountOf(tokens, term) == Cardinality({i \in 1..Len(tokens) : tokens[i] = term})

\* numerator of count / tokens.length (0 for an empty token list)
calculateTF(tokens, term) == IF Len(tokens) > 0 THEN CountOf(tokens, term) ELSE 0

calculateIDF(documents, term) ==
  LET docsWithTerm == Cardinality({d \in 1..Len(documents) : term \in TokenSet(documents[d])})
  IN LnScaled(Len(documents)) - LnScaled(1 + docsWithTerm)

createTfIdfVector(doc, vocab, idfScores) ==
  The({Stored([term \in vocab |-> calculateTF(tokens, term) * idfScores[term]])
         : tokens \in {tokenize(doc)}})

RECURSIVE SumOver(_, _)
SumOver(S, f) ==
  IF S = {} THEN 0
  ELSE The({f[x] + The({SumOver(rest, f) : rest \in {S \ {x}}}) : x \in {CHOOSE y \in S : TRUE}})

\* The cosine dotProduct / (|A| * |B|) as the triple (dot, |A|^2, |B|^2);
\* the value 0 returned for a zero magnitude is the triple (0, 1, 1).
ZeroSimilarity == [dot |-> 0, magA |-> 1, magB |-> 1]

cosineSimilarity(vecA, vecB) ==
  LET vocab == DOMAIN vecA IN
  The({IF magnitudeA = 0 \/ magnitudeB = 0 THEN ZeroSimilarity
       ELSE [dot |-> dotProduct, magA |-> magnitudeA, magB |-> magnitudeB]
         : dotProduct \in {SumOver(vocab, [t \in vocab |-> vecA[t] * vecB[t]])},
           magnitudeA \in {SumOver(vocab, [t \in vocab |-> vecA[t] * vecA[t]])},
           magnitudeB \in {SumOver(vocab, [t \in vocab |-> vecB[t] * vecB[t]])}})

SignedSquare(x) == IF x >= 0 THEN x * x ELSE 0 - (x * x)

\* s > t for two similarities of the same row of A (equal magA) or against 0
SimGreater(s, t) ==
  IF t.dot = 0 THEN s.dot > 0
  ELSE IF s.dot = 0 THEN t.dot < 0
  ELSE SignedSquare(s.dot) * t.magB > SignedSquare(t.dot) * s.magB

\* theta is thetaNum / ThetaDen
ThetaDen == 10

\* fault: the threshold is exclusive
SimAtLeast_Exclusive(s, thetaNum) ==
  s.dot > 0 /\ s.dot * s.dot * ThetaDen * ThetaDen > thetaNum * thetaNum * s.magA * s.magB

\* s >= theta
SimAtLeast(s, thetaNum) ==
  IF thetaNum = 0 THEN s.dot >= 0
  ELSE s.dot > 0 /\ s.dot * s.dot * ThetaDen * ThetaDen >= thetaNum * thetaNum * s.magA * s.magB

(***************************************************************************)
(* tfIdfMerge                                                              *)
(***************************************************************************)
\* the inner loop over tableB: keeps the first strictly greater similarity
RECURSIVE BestMatchFrom(_, _, _, _)
BestMatchFrom(vecA, vectorsB, j, bestMatch) ==
  IF j > Len(vectorsB) THEN bestMatch
  ELSE The({IF SimGreater(similarity, bestMatch.similarity)
              THEN The({BestMatchFrom(vecA, vectorsB, n, better)
                          : n \in {j + 1}, better \in {[similarity |-> similarity, indexB |-> j]}})
              ELSE The({BestMatchFrom(vecA, vectorsB, n, bestMatch) : n \in {j + 1}})
              : similarity \in {cosineSimilarity(vecA, vectorsB[j])}})

BestMatch(vecA, vectorsB) ==
  BestMatchFrom(vecA, vectorsB, 1, [similarity |-> ZeroSimilarity, indexB |-> -1])

\* tableB[bestMatch.indexB]; indexB = -1 reads undefined
Undefined == [undefined |-> TRUE]

RowAt(table, index) == IF index \in 1..Len(table) THEN table[index] ELSE Undefined

Serialize(rows) ==
  << HeaderLine, SeparatorLine >> \o [i \in 1..Len(rows) |-> RowLine(rows[i])] \o << BlankLine >>

\* the TF-IDF vectors of the Recommended Fix texts of both tables
Vectorize(docsA, docsB) ==
  The({The({[a |-> Stored([i \in 1..Len(docsA) |-> createTfIdfVector(docsA[i], vocab, idfScores)]),
             b |-> Stored([i \in 1..Len(docsB) |-> createTfIdfVector(docsB[i], vocab, idfScores)])]
              : idfScores \in {Stored([term \in vocab |-> calculateIDF(allDocs, term)])}})
         : allDocs \in {docsA \o docsB}, vocab \in {buildVocabulary(docsA \o docsB)}})

\* fault: the matched row of B is output in place of the row of A
MatchRows_RowOfB(tableA, tableB, best, thetaNum) ==
  LET Kept(i) == SimAtLeast(best[i].similarity, thetaNum) /\ best[i].indexB >= 1 IN
  The({[content |-> Serialize([k \in 1..Len(keptIdx) |-> tableB[best[keptIdx[k]].indexB]]),
        matchDetails |-> Stored([k \in 1..Len(keptIdx) |->
                           [similarity |-> best[keptIdx[k]].similarity,
                            rowA |-> tableA[keptIdx[k]],
                            rowB |-> RowAt(tableB, best[keptIdx[k]].indexB)]])]
         : keptIdx \in {SelectSeq([i \in 1..Len(tableA) |-> i], Kept)}})

\* the rows of A whose best match reaches theta, with their match details
MatchRows(tableA, tableB, best, thetaNum) ==
  LET Kept(i) == SimAtLeast(best[i].similarity, thetaNum) IN
  The({[content |-> Serialize([k \in 1..Len(keptIdx) |-> tableA[keptIdx[k]]]),
        matchDetails |-> Stored([k \in 1..Len(keptIdx) |->
                           [similarity |-> best[keptIdx[k]].similarity,
                            rowA |-> tableA[keptIdx[k]],
                            rowB |-> RowAt(tableB, best[keptIdx[k]].indexB)]])]
         : keptIdx \in {SelectSeq([i \in 1..Len(tableA) |-> i], Kept)}})

\* fault: no early return for an empty table
tfIdfMerge_NoEmptyCheck(resultA, resultB, thetaNum) ==
  The({The({The({MatchRows(tableA, tableB, best, thetaNum)
                   : best \in {Stored([i \in 1..Len(tableA) |-> BestMatch(vectors.a[i], vectors.b)])}})
              : vectors \in {Vectorize([i \in 1..Len(tableA) |-> tableA[i].recommendedFix],
                                       [i \in 1..Len(tableB) |-> tableB[i].recommendedFix])}})
         : tableA \in {parseMarkdownTable(resultA)}, tableB \in {parseMarkdownTable(resultB)}})

tfIdfMerge(resultA, resultB, thetaNum) ==
  The({IF Len(tableA) = 0 \/ Len(tableB) = 0
         THEN [content |-> EmptyTable, matchDetails |-> << >>]
       ELSE The({The({MatchRows(tableA, tableB, best, thetaNum)
                        : best \in {Stored([i \in 1..Len(tableA) |-> BestMatch(vectors.a[i], vectors.b)])}})
                   : vectors \in {Vectorize([i \in 1..Len(tableA) |-> tableA[i].recommendedFix],
                                            [i \in 1..Len(tableB) |-> tableB[i].recommendedFix])}})
         : tableA \in {parseMarkdownTable(resultA)}, tableB \in {parseMarkdownTable(resultB)}})

(***************************************************************************)
(* simpleUnionMerge                                                        *)
(***************************************************************************)
\* fault: the key keeps the letter case
FixKey_CaseSensitive(row) == row.recommendedFix

\* row.recommendedFix.toLowerCase().trim()
FixKey(row) == [i \in 1..Len(row.recommendedFix) |-> LowerCase(row.recommendedFix[i])]

RECURSIVE Dedup(_, _, _, _)
Dedup(rows, i, seenFixes, allRows) ==
  IF i > Len(rows) THEN allRows
  ELSE IF FixKey(rows[i]) \in seenFixes
    THEN The({Dedup(rows, n, seenFixes, allRows) : n \in {i + 1}})
    ELSE The({Dedup(rows, n, seen, all)
                : n \in {i + 1}, seen \in {seenFixes \cup {FixKey(rows[i])}},
                  all \in {Append(allRows, rows[i])}})

RECURSIVE ConcatRows(_, _)
ConcatRows(results, i) ==
  IF i > Len(results) THEN << >>
  ELSE parseMarkdownTable(results[i]) \o ConcatRows(results, i + 1)

\* fault: the rows are concatenated without deduplication
simpleUnionMerge_NoDedup(results) ==
  The({IF Len(rows) = 0 THEN EmptyTable ELSE Serialize(rows) : rows \in {ConcatRows(results, 1)}})

simpleUnionMerge(results) ==
  The({The({IF Len(allRows) = 0 THEN EmptyTable ELSE Serialize(allRows)
              : allRows \in {Dedup(rows, 1, {}, << >>)}})
         : rows \in {ConcatRows(results, 1)}})

(***************************************************************************)
(* cleanTableContent: the first '|' up to the first "\n\n" (or the end of  *)
(* the text) that follows the pipes-th '|'; the text itself when it holds  *)
(* fewer delimiters.  pipes is 4 in multiPassAnalysis.ts and 5 in          *)
(* multiPassAnalysisNew.ts.                                                *)
(***************************************************************************)
RECURSIVE PipesFrom(_, _, _)
PipesFrom(content, from, to) ==
  IF from > to THEN 0 ELSE PipeCount(content[from]) + PipesFrom(content, from + 1, to)

\* the least element of a non-empty set of line numbers
First(S) == CHOOSE i \in S : \A k \in S : i <= k

\* the match from line start when its pipes-th '|' is on line last
CleanFrom(content, start, last) ==
  \* a "\n\n" begins at the end of line e when line e+1 is empty and is not the last line
  The({SubSeq(content, start, IF breaks = {} THEN Len(content) ELSE First(breaks))
         : breaks \in {{e \in last..Len(content) :
                          e + 2 <= Len(content) /\ content[e + 1] = BlankLine}}})

cleanTableContent(content, pipes) ==
  The({IF bars = {} THEN content
       ELSE The({IF reach = {} THEN content ELSE CleanFrom(content, First(bars), First(reach))
                   : reach \in {{j \in First(bars)..Len(content) :
                                    PipesFrom(content, First(bars), j) >= pipes}}})
         : bars \in {{i \in 1..Len(content) : content[i].bar}}})

(***************************************************************************)
(* mergeIntersectionResults: the TF-IDF merge plus its MergeReasoning      *)
(***************************************************************************)
\* lines that start with '|' and do not include '---|', minus the header
CountDataLines(text) ==
  Cardinality({i \in 1..Len(text) : text[i].bar /\ ~IncludesDashCell(text[i])}) - 1

Max0(n) == IF n > 0 THEN n ELSE 0

\* fault: matchesFound reports the data lines of input B
mergeIntersectionResults_CountsRowsOfB(resultA, resultB, thetaNum) ==
  The({[content |-> mergeResult.content,
        reasoning |-> [totalRowsA |-> Max0(CountDataLines(mergeResult.content)),
                       totalRowsB |-> Max0(CountDataLines(resultB)),
                       matchesFound |-> Max0(CountDataLines(resultB)),
                       theta |-> thetaNum,
                       matchDetails |-> mergeResult.matchDetails],
        cost |-> 0]
         : mergeResult \in {tfIdfMerge(resultA, resultB, thetaNum)}})

mergeIntersectionResults(resultA, resultB, thetaNum) ==
  The({[content |-> mergeResult.content,
        reasoning |-> [totalRowsA |-> Max0(CountDataLines(mergeResult.content)),
                       totalRowsB |-> Max0(CountDataLines(resultB)),
                       matchesFound |-> Len(mergeResult.matchDetails),
                       theta |-> thetaNum,
                       matchDetails |-> mergeResult.matchDetails],
        cost |-> 0]
         : mergeResult \in {tfIdfMerge(resultA, resultB, thetaNum)}})

mergeUnionResults(results) == simpleUnionMerge(results)

(***************************************************************************)
(* Raw pass outputs the model collaborator may return                      *)
(***************************************************************************)
Row(s, n, f) == [sources |-> s, nature |-> n, recommendedFix |-> f]

RowDate == Row(<<"Receipt">>, <<"date">>, <<"Change", "date", "to", "22.">>)

RowDateB == Row(<<"Testimony">>, <<"checkin">>, <<"change", "the", "date", "22">>)

RowFee == Row(<<"Invoice">>, <<"amount">>, <<"Update", "fee", "$55">>)

RowFeeB == Row(<<"Contract">>, <<"fee">>, <<"update", "fee", "50">>)

RowTerm == Row(<<"Email">>, <<"term">>, <<"extend", "term">>)

\* explanatory preamble, then the table
TextA == << Prose(<<"Analysis">>), BlankLine, HeaderLine, SeparatorLine, RowLine(RowDate), RowLine(RowFee) >>

\* the table, then a closing paragraph
TextB == << HeaderLine, SeparatorLine, RowLine(RowDateB), RowLine(RowTerm), BlankLine, Prose(<<"Summary">>) >>

TextC == << HeaderLine, SeparatorLine, RowLine(RowFeeB), RowLine(RowDate) >>

\* no table at all
TextD == << Prose(<<"No", "inconsistencies">>) >>

Outputs == {TextA, TextB, TextC, TextD, EmptyString}

Thetas == {0, 2, 4}

(***************************************************************************)
(* The model-invocation collaborator                                       *)
(***************************************************************************)
\* what the HTTP exchange (or the missing core library) produces for a call
\* usage tells whether the HTTP answer carried a usage block
Responses(v) ==
  {[kind |-> "text", text |-> t, usage |-> TRUE] : t \in Outputs}
    \cup {[kind |-> "text", text |-> TextD, usage |-> FALSE]}
    \cup {[kind |-> k, text |-> EmptyString, usage |-> FALSE] : k \in {"apiError", "networkError"}}
    \cup (IF v = "multiPassAnalysis"
            THEN {[kind |-> "coreMissing", text |-> EmptyString, usage |-> FALSE]} ELSE {})

\* prompt_tokens of every call of a run: the prompt differs by its prefix only
PromptTokens == 2

\* completion_tokens: one per non-empty line of the answer
CompletionTokens(text) == Cardinality({i \in 1..Len(text) : ~IsBlank(text[i])})

\* the token counts an answer reports: data.usage.* || 0
UsageOf(resp) ==
  IF resp.usage
    THEN [inputTokens |-> PromptTokens,
          outputTokens |-> CompletionTokens(resp.text),
          totalTokens |-> PromptTokens + CompletionTokens(resp.text)]
    ELSE [inputTokens |-> 0, outputTokens |-> 0, totalTokens |-> 0]

\* pricing of the default model gpt-4o-mini, in units of 0.05 USD per million tokens
inputPerMillionTokens == 3

outputPerMillionTokens == 12

\* modelProviders.calculateCost, in units of 0.05 micro-USD
calculateCost(inputTokens, outputTokens) ==
  inputTokens * inputPerMillionTokens + outputTokens * outputPerMillionTokens

\* consistencyCheckWrapper.analyzeConsistency over the core analyzeConsistency:
\* throws when the core is not loaded, reports failure for an HTTP error, a
\* network exception or an empty answer, succeeds with the raw answer otherwise
analyzeConsistency(resp) ==
  [threw |-> resp.kind = "coreMissing",
   success |-> resp.kind = "text" /\ resp.text # EmptyString,
   rawResponse |-> IF resp.kind = "text" THEN resp.text ELSE EmptyString,
   hasUsage |-> resp.kind = "text" /\ resp.text # EmptyString,
   usage |-> UsageOf(resp)]

\* modelProviders.callLlmApi: throws for every failure, returns the content otherwise
callLlmApi(resp) ==
  [threw |-> resp.kind # "text",
   content |-> IF resp.kind = "text" THEN resp.text ELSE EmptyString,
   hasUsage |-> resp.kind = "text" /\ resp.usage,
   usage |-> UsageOf(resp)]

(***************************************************************************)
(* State of one run of runMultiPassAnalysis                                *)
(***************************************************************************)
VARIABLES
  variant,              \* "multiPassAnalysis" (in-loop merge) or "multiPassAnalysisNew" (post-loop merge)
  numberOfPasses,
  strategy,
  mergeTheta,
  pc,                   \* "idle", "awaitSingle", "awaitPass", "done"
  pass,                 \* the loop variable
  inflight,             \* collaborator calls issued and not yet completed
  calls,                \* history: every call issued, in order
  responses,            \* history: what the collaborator produced for each completed call
  analysisResults,
  resultPasses,         \* history: the pass that pushed each element of analysisResults
  mergedResult,
  mergeReasoningArray,
  mergeCalls,           \* history: the operands of every mergeIntersectionResults call
  totalCost,
  totalTokens,
  result,               \* what the run returned or threw
  lab,                  \* the last direct call of a library function: its name, arguments and value
  app                   \* the application: its store, the rendered AnalysisControl, the runs in progress

runVars == << variant, numberOfPasses, strategy, mergeTheta, pc, pass, inflight, calls, responses,
              analysisResults, resultPasses, mergedResult, mergeReasoningArray, mergeCalls,
              totalCost, totalTokens, result >>

vars == << runVars, lab, app >>

params == << variant, numberOfPasses, strategy, mergeTheta >>

Pending == [status |-> "pending", content |-> EmptyString, mergeReasoning |-> << >>, rawResults |-> << >>]

Thrown == [status |-> "thrown", content |-> EmptyString, mergeReasoning |-> << >>, rawResults |-> << >>]

Returned(content, reasoning, raw) ==
  [status |-> "returned", content |-> content, mergeReasoning |-> reasoning, rawResults |-> raw]

NoCall == [op |-> "none", args |-> << >>, out |-> << >>]

\* the initial state of useConsistencyStore
InitialStore ==
  [uploadedFiles |-> 0,
   analysisResults |-> "null",
   isProcessing |-> FALSE,
   error |-> "null",
   apiKey |-> "",
   selectedModel |-> "gpt-4o-mini",
   sessionCost |-> 0,
   totalTokensUsed |-> 0,
   numberOfPasses |-> 1,
   passStrategy |-> "union"]

\* canAnalyze as AnalysisControl computes it when it renders
canAnalyze(store) == store.uploadedFiles > 0 /\ store.apiKey # "" /\ ~store.isProcessing

\* the application at launch: the store, the canAnalyze of the last render, the number
\* of runConsistencyAnalysis executions in progress, and what addToCost was passed
\* since the last resetSessionCost
AppStart ==
  [store |-> InitialStore, canAnalyze |-> canAnalyze(InitialStore), running |-> 0,
   addedCost |-> 0, addedTokens |-> 0]

Init ==
  /\ lab = NoCall
  /\ app = AppStart
  /\ variant \in {"multiPassAnalysis", "multiPassAnalysisNew"}
  /\ numberOfPasses \in 1..MaxPasses
  /\ strategy \in {"intersection", "union"}
  /\ mergeTheta \in Thetas
  /\ pc = "idle"
  /\ pass = 0
  /\ inflight = {}
  /\ calls = << >>
  /\ responses = << >>
  /\ analysisResults = << >>
  /\ resultPasses = << >>
  /\ mergedResult = EmptyString
  /\ mergeReasoningArray = << >>
  /\ mergeCalls = << >>
  /\ totalCost = 0
  /\ totalTokens = 0
  /\ result = Pending

\* fault: single-pass mode sends the randomized multi-pass prompt
SinglePassCall_Randomized == [pass |-> 1, prefix |-> "randomized", temperature |-> "multiPass"]

\* the single-pass call: base prompt, temperatureSettings.singlePass
SinglePassCall == [pass |-> 1, prefix |-> "none", temperature |-> "singlePass"]

\* the call of one pass: generateRandomPromptPrefix(pass, total) + basePrompt, temperatureSettings.multiPass
PassCall(p) == [pass |-> p, prefix |-> "randomized", temperature |-> "multiPass"]

\* fault: the remaining passes are issued together, not awaited one by one
IssueCalls_Concurrent(p, total) == [i \in 1..(total - p + 1) |-> PassCall(p + i - 1)]

\* the calls issued when the loop reaches pass p: one, awaited before the next
IssueCalls(p, total) == << PassCall(p) >>

\* fault: `break` instead of `continue`, a failed pass ends the loop
AfterFailure_Break(p) == numberOfPasses + 1

\* `continue` after a failed pass: the loop goes on with the next index
AfterFailure(p) == p + 1

SeqToSet(s) == {s[i] : i \in 1..Len(s)}

\* if (result.usage) { totalCost += cost; totalTokens += result.usage.totalTokens }
TrackCost(r, cost0, tokens0) ==
  IF r.hasUsage
    THEN [cost |-> cost0 + calculateCost(r.usage.inputTokens, r.usage.outputTokens),
          tokens |-> tokens0 + r.usage.totalTokens]
    ELSE [cost |-> cost0, tokens |-> tokens0]

(***************************************************************************)
(* runMultiPassAnalysis up to its first await                              *)
(***************************************************************************)
Start ==
  /\ pc = "idle"
  /\ IF numberOfPasses = 1
       THEN /\ pc' = "awaitSingle"
            /\ pass' = pass
            /\ inflight' = {SinglePassCall}
            /\ calls' = << SinglePassCall >>
       ELSE /\ pc' = "awaitPass"
            /\ pass' = 1
            /\ inflight' = SeqToSet(IssueCalls(1, numberOfPasses))
            /\ calls' = IssueCalls(1, numberOfPasses)
  /\ UNCHANGED << params, lab, app, responses, analysisResults, resultPasses, mergedResult,
                  mergeReasoningArray, mergeCalls, totalCost, totalTokens, result >>

(***************************************************************************)
(* Single-pass mode: the continuation after the awaited call               *)
(***************************************************************************)
Finish(r) ==
  /\ pc' = "done"
  /\ inflight' = {}
  /\ result' = r

\* multiPassAnalysis.ts: a thrown wrapper error propagates, a failure result is rethrown
SinglePassReturnOld(resp) ==
  /\ pc = "awaitSingle"
  /\ variant = "multiPassAnalysis"
  /\ inflight # {}
  /\ resp \in Responses(variant)
  /\ LET r == analyzeConsistency(resp) IN
       IF r.threw \/ ~r.success
         THEN /\ Finish(Thrown)
              /\ UNCHANGED << totalCost, totalTokens >>
         ELSE /\ Finish(Returned(r.rawResponse, << >>, << r.rawResponse >>))
              /\ totalCost' = TrackCost(r, 0, 0).cost
              /\ totalTokens' = TrackCost(r, 0, 0).tokens
  /\ responses' = Append(responses, [pass |-> 1, kind |-> resp.kind, text |-> resp.text, usage |-> resp.usage])
  /\ UNCHANGED << params, lab, app, pass, calls, analysisResults, resultPasses, mergedResult,
                  mergeReasoningArray, mergeCalls >>

\* multiPassAnalysisNew.ts: every error of callLlmApi is rethrown as 'Analysis failed: ...'
SinglePassReturnNew(resp) ==
  /\ pc = "awaitSingle"
  /\ variant = "multiPassAnalysisNew"
  /\ inflight # {}
  /\ resp \in Responses(variant)
  /\ LET r == callLlmApi(resp) IN
       IF r.threw
         THEN /\ Finish(Thrown)
              /\ UNCHANGED << totalCost, totalTokens >>
         ELSE /\ Finish(Returned(r.content, << >>, << r.content >>))
              /\ totalCost' = TrackCost(r, 0, 0).cost
              /\ totalTokens' = TrackCost(r, 0, 0).tokens
  /\ responses' = Append(responses, [pass |-> 1, kind |-> resp.kind, text |-> resp.text, usage |-> resp.usage])
  /\ UNCHANGED << params, lab, app, pass, calls, analysisResults, resultPasses, mergedResult,
                  mergeReasoningArray, mergeCalls >>

(***************************************************************************)
(* Multi-pass mode of multiPassAnalysis.ts: merge inside the pass loop     *)
(***************************************************************************)
\* fault: the progressive merge runs whatever the strategy
ShouldMergeInLoop_AnyStrategy(strat, count) == count >= 2

\* the guard of the progressive merge
ShouldMergeInLoop(strat, count) == strat = "intersection" /\ count >= 2

\* mergedResult || (analysisResults.length > 0 ? analysisResults[0] : ''), cleaned
FinalContentOld(strat, results, merged) ==
  IF strat = "union" THEN mergeUnionResults(results)
  ELSE cleanTableContent(IF merged # EmptyString THEN merged
                         ELSE IF Len(results) > 0 THEN results[1] ELSE EmptyString, 4)

PassReturnOld(call, resp) ==
  /\ pc = "awaitPass"
  /\ variant = "multiPassAnalysis"
  /\ call \in inflight
  /\ resp \in Responses(variant)
  /\ responses' = Append(responses, [pass |-> call.pass, kind |-> resp.kind, text |-> resp.text,
                                      usage |-> resp.usage])
  /\ LET r == analyzeConsistency(resp) IN
       IF r.threw
         THEN /\ Finish(Thrown)
              /\ UNCHANGED << pass, calls, analysisResults, resultPasses, mergedResult,
                              mergeReasoningArray, mergeCalls, totalCost, totalTokens >>
         ELSE
           LET results1 == IF r.success THEN Append(analysisResults, r.rawResponse) ELSE analysisResults
               doMerge == r.success /\ ShouldMergeInLoop(strategy, Len(results1))
               previousResult == IF call.pass = 2 THEN results1[1] ELSE mergedResult
               currentResult == results1[Len(results1)]
               merged == mergeIntersectionResults(previousResult, currentResult, mergeTheta)
               merged1 == IF doMerge THEN cleanTableContent(merged.content, 4) ELSE mergedResult
               reasoning1 == IF doMerge THEN Append(mergeReasoningArray, merged.reasoning)
                             ELSE mergeReasoningArray
               nextPass == IF r.success THEN call.pass + 1 ELSE AfterFailure(call.pass)
           IN /\ analysisResults' = results1
              /\ resultPasses' = IF r.success THEN Append(resultPasses, call.pass) ELSE resultPasses
              /\ totalCost' = IF ~r.success THEN totalCost
                               ELSE TrackCost(r, totalCost, totalTokens).cost
                                      + (IF doMerge THEN merged.cost ELSE 0)
              /\ totalTokens' = IF ~r.success THEN totalTokens
                                 ELSE TrackCost(r, totalCost, totalTokens).tokens
              /\ mergedResult' = merged1
              /\ mergeReasoningArray' = reasoning1
              /\ mergeCalls' = IF doMerge THEN Append(mergeCalls, [a |-> previousResult, b |-> currentResult])
                               ELSE mergeCalls
              /\ pass' = nextPass
              /\ IF nextPass <= numberOfPasses
                   THEN /\ pc' = "awaitPass"
                        /\ inflight' = (inflight \ {call}) \cup SeqToSet(IssueCalls(nextPass, numberOfPasses))
                        /\ calls' = calls \o IssueCalls(nextPass, numberOfPasses)
                        /\ result' = result
                   ELSE /\ Finish(Returned(FinalContentOld(strategy, results1, merged1), reasoning1, results1))
                        /\ calls' = calls
  /\ UNCHANGED << params, lab, app >>

(***************************************************************************)
(* Multi-pass mode of multiPassAnalysisNew.ts: merge after the pass loop   *)
(***************************************************************************)
\* the progressive merge A+B -> A', A'+C -> A'' over the stored raw results
RECURSIVE FoldNew(_, _, _, _, _, _)
FoldNew(results, i, merged, reasoning, operands, thetaNum) ==
  IF i > Len(results) THEN [content |-> merged, reasoning |-> reasoning, operands |-> operands]
  ELSE The({The({The({FoldNew(results, n, mergeResult.content, reasoning1, operands1, thetaNum)
                        : n \in {i + 1},
                          reasoning1 \in {Append(reasoning, mergeResult.reasoning)},
                          operands1 \in {Append(operands, [a |-> mergedResult1, b |-> passResult])}})
                   : mergeResult \in {mergeIntersectionResults(mergedResult1, passResult, thetaNum)}})
              : mergedResult1 \in {cleanTableContent(merged, 5)},
                passResult \in {cleanTableContent(results[i], 5)}})

FinalNew(strat, results, thetaNum) ==
  IF strat = "union"
    THEN [content |-> mergeUnionResults(results), reasoning |-> << >>, operands |-> << >>]
  ELSE IF Len(results) = 0
    THEN [content |-> EmptyTable, reasoning |-> << >>, operands |-> << >>]
  ELSE IF Len(results) = 1
    THEN [content |-> results[1], reasoning |-> << >>, operands |-> << >>]
  ELSE FoldNew(results, 2, results[1], << >>, << >>, thetaNum)

PassReturnNew(call, resp) ==
  /\ pc = "awaitPass"
  /\ variant = "multiPassAnalysisNew"
  /\ call \in inflight
  /\ resp \in Responses(variant)
  /\ responses' = Append(responses, [pass |-> call.pass, kind |-> resp.kind, text |-> resp.text,
                                      usage |-> resp.usage])
  /\ LET r == callLlmApi(resp)
         results1 == IF r.threw THEN analysisResults ELSE Append(analysisResults, r.content)
         nextPass == IF r.threw THEN AfterFailure(call.pass) ELSE call.pass + 1
     IN /\ analysisResults' = results1
        /\ resultPasses' = IF r.threw THEN resultPasses ELSE Append(resultPasses, call.pass)
        /\ totalCost' = IF r.threw THEN totalCost ELSE TrackCost(r, totalCost, totalTokens).cost
        /\ totalTokens' = IF r.threw THEN totalTokens ELSE TrackCost(r, totalCost, totalTokens).tokens
        /\ pass' = nextPass
        /\ mergedResult' = mergedResult
        /\ IF nextPass <= numberOfPasses
             THEN /\ pc' = "awaitPass"
                  /\ inflight' = (inflight \ {call}) \cup SeqToSet(IssueCalls(nextPass, numberOfPasses))
                  /\ calls' = calls \o IssueCalls(nextPass, numberOfPasses)
                  /\ UNCHANGED << mergeReasoningArray, mergeCalls, result >>
             ELSE LET final == FinalNew(strategy, results1, mergeTheta) IN
                  /\ Finish(Returned(final.content, mergeReasoningArray \o final.reasoning, results1))
                  /\ mergeReasoningArray' = mergeReasoningArray \o final.reasoning
                  /\ mergeCalls' = mergeCalls \o final.operands
                  /\ calls' = calls
  /\ UNCHANGED << params, lab, app >>

Next ==
  \/ Start
  \/ \E resp \in Responses("multiPassAnalysis") : SinglePassReturnOld(resp)
  \/ \E resp \in Responses("multiPassAnalysisNew") : SinglePassReturnNew(resp)
  \/ \E call \in inflight : \E resp \in Responses("multiPassAnalysis") : PassReturnOld(call, resp)
  \/ \E call \in inflight : \E resp \in Responses("multiPassAnalysisNew") : PassReturnNew(call, resp)

Spec == Init /\ [][Next]_vars

\* every collaborator call eventually returns or fails, and the run is started
FairSpec == Spec /\ WF_vars(Next)

(***************************************************************************)
(* Vocabulary of the properties                                            *)
(***************************************************************************)
Done == pc = "done"

VariantOld == variant = "multiPassAnalysis"

VariantNew == variant = "multiPassAnalysisNew"

\* a pass succeeded: the collaborator answered with non-empty text
IsSuccess(resp) == resp.kind = "text" /\ resp.text # EmptyString

SuccessfulOutputs ==
  LET ok == SelectSeq(responses, IsSuccess) IN [i \in 1..Len(ok) |-> ok[i].text]

AllAttempted == Len(responses) = numberOfPasses

SomePassFailed == \E i \in 1..Len(responses) : ~IsSuccess(responses[i])

CleanPipes == IF VariantOld THEN 4 ELSE 5

\* Match(...Match(Match(r1, r2), r3)..., rk) with both operands cleaned to table-only text
RECURSIVE FoldMatch(_, _, _, _, _)
FoldMatch(outputs, i, running, pipes, thetaNum) ==
  IF i > Len(outputs) THEN running
  ELSE The({FoldMatch(outputs, n, kept, pipes, thetaNum)
              : n \in {i + 1},
                kept \in {tfIdfMerge(cleanTableContent(running, pipes),
                                     cleanTableContent(outputs[i], pipes), thetaNum).content}})

LeftFold(outputs, pipes, thetaNum) == FoldMatch(outputs, 2, outputs[1], pipes, thetaNum)

InOrder(records) == \A i \in 1..Len(records) : records[i].pass = i

NonEmptyText(text) == text # EmptyString

(***************************************************************************)
(* C1: in an intersection run with N >= 2 passes of which k >= 2 succeed,  *)
(* whatever passes fail, the final content is the left fold of Match over  *)
(* the successful outputs in pass order, seeded with the first successful  *)
(* output (compared as table rows).                                        *)
(***************************************************************************)
C1_FoldOverSuccessfulPasses ==
  (Done /\ strategy = "intersection" /\ numberOfPasses >= 2 /\ AllAttempted
        /\ Len(SuccessfulOutputs) >= 2)
    => /\ result.status = "returned"
       /\ parseMarkdownTable(result.content)
            = parseMarkdownTable(LeftFold(SuccessfulOutputs, CleanPipes, mergeTheta))

(***************************************************************************)
(* C2: in a multi-pass run a failing pass (failure result or thrown error) *)
(* does not abort the run: all N passes are attempted and the run returns. *)
(***************************************************************************)
C2_FailedPassDoesNotAbort ==
  (Done /\ numberOfPasses >= 2)
    => /\ result.status = "returned"
       /\ Len(calls) = numberOfPasses
       /\ InOrder(calls)

(***************************************************************************)
(* C3: when every pass of a multi-pass run fails, the run returns and its  *)
(* final content is the empty-table sentinel, under either strategy.       *)
(***************************************************************************)
C3_AllFailedGivesEmptyTable ==
  (Done /\ numberOfPasses >= 2 /\ AllAttempted /\ SuccessfulOutputs = << >>)
    => /\ result.status = "returned"
       /\ result.content = EmptyTable

(***************************************************************************)
(* C4: for every N >= 1, strategy and collaborator behaviour the run       *)
(* completes with a returned result and never throws to its caller.        *)
(***************************************************************************)
C4_NeverThrows == Done => result.status = "returned"

(***************************************************************************)
(* C5: a pass whose call returned empty text is a failed pass: its output  *)
(* is not appended to rawResults and is no operand of a merge.             *)
(***************************************************************************)
C5_EmptyTextIsFailure ==
  \A i \in 1..Len(responses) :
    (responses[i].kind = "text" /\ responses[i].text = EmptyString)
      => /\ \A k \in 1..Len(resultPasses) : resultPasses[k] # responses[i].pass
         /\ Len(analysisResults) = Len(SelectSeq(responses, IsSuccess))

(***************************************************************************)
(* C6: in an intersection run with N >= 2 attempted passes of which        *)
(* exactly one succeeds, the final content is that pass's raw output       *)
(* verbatim, no Match is executed and the trace list is empty.             *)
(***************************************************************************)
C6_SingleSuccessVerbatim ==
  (Done /\ strategy = "intersection" /\ numberOfPasses >= 2 /\ AllAttempted
        /\ Len(SuccessfulOutputs) = 1)
    => /\ result.status = "returned"
       /\ result.content = SuccessfulOutputs[1]
       /\ mergeCalls = << >>
       /\ result.mergeReasoning = << >>

(***************************************************************************)
(* C7: under the union strategy no Match/merge step is ever executed; the  *)
(* final content is UnionMerge applied to the successful pass outputs in   *)
(* pass order and the returned trace list is empty.                        *)
(***************************************************************************)
C7_UnionNeverMerges ==
  (strategy = "union" /\ numberOfPasses >= 2)
    => /\ mergeCalls = << >>
       /\ mergeReasoningArray = << >>
       /\ (Done /\ result.status = "returned")
            => /\ result.content = simpleUnionMerge(SuccessfulOutputs)
               /\ result.mergeReasoning = << >>

C7_Witness ==
  /\ Done /\ strategy = "union" /\ numberOfPasses >= 2 /\ result.status = "returned"
  /\ Len(SuccessfulOutputs) >= 2 /\ SomePassFailed
  /\ Len(parseMarkdownTable(result.content)) >= 3

(***************************************************************************)
(* C8: with N = 1 exactly one collaborator call is made, with the base     *)
(* prompt (no randomized prefix) and the single-pass temperature; on       *)
(* success the final content is the raw output unparsed, rawResults holds  *)
(* that one output and the trace list is empty, whatever the strategy.     *)
(***************************************************************************)
C8_SinglePass ==
  numberOfPasses = 1
    => /\ Len(calls) <= 1
       /\ \A i \in 1..Len(calls) :
            calls[i] = [pass |-> 1, prefix |-> "none", temperature |-> "singlePass"]
       /\ mergeCalls = << >>
       /\ Done => /\ Len(calls) = 1
                  /\ Len(responses) = 1
                  /\ IsSuccess(responses[1])
                       => /\ result.status = "returned"
                          /\ result.content = responses[1].text
                          /\ result.rawResults = << responses[1].text >>
                          /\ result.mergeReasoning = << >>

C8_Witness ==
  /\ Done /\ numberOfPasses = 1 /\ strategy = "intersection"
  /\ result.status = "returned" /\ result.content = TextA /\ result.rawResults = << TextA >>

C10_EventuallyDone ==
  (VariantNew /\ numberOfPasses >= 2)
    ~> (Done /\ result.status = "returned" /\ Len(calls) = numberOfPasses /\ InOrder(calls)
             /\ Len(responses) = numberOfPasses)

C10_Witness ==
  /\ Done /\ VariantNew /\ numberOfPasses >= 2 /\ result.status = "returned"
  /\ SomePassFailed /\ Len(calls) = numberOfPasses

(***************************************************************************)
(* Cost and token totals                                                   *)
(***************************************************************************)
\* the cost and the tokens of the calls at the given indices of the history
RECURSIVE SumUsage(_, _)
SumUsage(records, i) ==
  IF i > Len(records) THEN [cost |-> 0, tokens |-> 0]
  ELSE The({[cost |-> rest.cost + calculateCost(u.inputTokens, u.outputTokens),
             tokens |-> rest.tokens + u.totalTokens]
              : u \in {UsageOf(records[i])}, rest \in {SumUsage(records, i + 1)}})

(***************************************************************************)
(* C11: when a run has returned, totalTokens is the sum of                 *)
(* usage.totalTokens and totalCost the sum of the computed costs over      *)
(* exactly the successful collaborator calls of the run; failed passes     *)
(* (an error, a thrown call, an empty answer) and the local TF-IDF merge   *)
(* steps contribute zero.                                                  *)
(***************************************************************************)
C11_TotalsOverSuccessfulCalls ==
  (Done /\ result.status = "returned")
    => /\ totalTokens = SumUsage(SelectSeq(responses, IsSuccess), 1).tokens
       /\ totalCost = SumUsage(SelectSeq(responses, IsSuccess), 1).cost

(***************************************************************************)
(* C12: when a run has returned, the trace list holds exactly one          *)
(* MergeTrace per executed fold step, in fold order; its length is k-1 for *)
(* an intersection run with k >= 2 successful passes and 0 in every other  *)
(* case (union, single-pass mode, fewer than 2 successful passes).         *)
(***************************************************************************)
C12_OneTracePerFoldStep ==
  (Done /\ result.status = "returned")
    => /\ Len(result.mergeReasoning) = Len(mergeCalls)
       /\ \A i \in 1..Len(mergeCalls) :
            result.mergeReasoning[i]
              = mergeIntersectionResults(mergeCalls[i].a, mergeCalls[i].b, mergeTheta).reasoning
       /\ Len(result.mergeReasoning)
            = IF strategy = "intersection" /\ numberOfPasses >= 2 /\ Len(SuccessfulOutputs) >= 2
                THEN Len(SuccessfulOutputs) - 1 ELSE 0

(***************************************************************************)
(* C13: every MergeTrace produced by mergeIntersectionResults(A, B, theta) *)
(* records totalRowsA = the number of data rows of the input A (the        *)
(* running result before the merge), totalRowsB = the number of data rows  *)
(* of the input B, matchesFound = the number of accepted matches and       *)
(* theta = the threshold used.                                             *)
(***************************************************************************)
C13_TraceCountsInputs ==
  \A i \in 1..Len(mergeReasoningArray) :
    /\ mergeReasoningArray[i].totalRowsA = Len(parseMarkdownTable(mergeCalls[i].a))
    /\ mergeReasoningArray[i].totalRowsB = Len(parseMarkdownTable(mergeCalls[i].b))
    /\ mergeReasoningArray[i].matchesFound = Len(mergeReasoningArray[i].matchDetails)
    /\ mergeReasoningArray[i].theta = mergeTheta

(***************************************************************************)
(* The library functions of tfIdfMerge.ts called directly, one call at a   *)
(* time, on arguments drawn from bounded sets of tables and texts          *)
(***************************************************************************)
MaxRows == 2

MaxLines == 3

SeqsUpTo(S, n) == UNION {[1..k -> S] : k \in 0..n}

\* the same fix as RowDate up to letter case, reported for other sources
RowDateSame == Row(<<"Email">>, <<"when">>, <<"change", "date", "to", "22.">>)

\* a data row whose first two fields repeat the column labels
RowLabels == Row(<<"Sources of Conflict">>, <<"Nature of Inconsistency">>, <<"extend", "term">>)

MergeRows == {RowDate, RowDateB, RowFee, RowFeeB}

MergeTexts == {Serialize(t) : t \in SeqsUpTo(MergeRows, MaxRows)} \cup {EmptyString, TextD, TextA}

\* the second operand: tables over three of the rows
MergeTextsB ==
  {Serialize(t) : t \in SeqsUpTo({RowDate, RowDateB, RowFeeB}, MaxRows)} \cup {EmptyString, TextD}

MergeThetas == Thetas \cup {ThetaDen}

UnionRows == {RowDate, RowDateSame, RowDateB, RowFee}

UnionTexts == {Serialize(t) : t \in SeqsUpTo(UnionRows, MaxRows)} \cup {TextD}

\* a line with two cells only, and a line with an empty second cell
ParseLines ==
  {HeaderLine, SeparatorLine, BlankLine, Prose(<<"Analysis">>), RowLine(RowDate), RowLine(RowFee),
   BarLine(<< <<"Invoice">>, <<"amount">> >>),
   BarLine(<< <<"Invoice">>, << >>, <<"amount">>, <<"Update", "fee", "$55">> >>)}

ParseTexts == SeqsUpTo(ParseLines, MaxLines) \ {<< >>}

RoundTripRows == {RowDate, RowFee, RowLabels}

\* null of the store fields analysisResults and lastAnalysisSettings
Null == [null |-> TRUE]

\* a table whose second row follows an empty line
TextSplit == << HeaderLine, SeparatorLine, RowLine(RowDate), BlankLine, RowLine(RowFee) >>

LiveTexts == {TextB, TextC, TextSplit, EmptyString}

\* what ResultsDisplay reads from the store
LiveStores ==
  [analysisResults : {Null, [content |-> TextD]},
   rawPassResults : SeqsUpTo(LiveTexts, MaxPasses),
   lastAnalysisSettings : {Null} \cup [passStrategy : {"intersection", "union"},
                                       numberOfPasses : 1..MaxPasses]]

shouldUseLiveMerging(store) ==
  /\ Len(store.rawPassResults) > 1
  /\ store.lastAnalysisSettings # Null
  /\ store.lastAnalysisSettings.passStrategy = "intersection"

\* fault: the pass count of the last run is not compared
isStateConsistent_NoPassCount(store) ==
  IF store.analysisResults = Null THEN TRUE
  ELSE IF ~shouldUseLiveMerging(store) THEN TRUE
  ELSE Len(store.rawPassResults) >= 2

isStateConsistent(store) ==
  IF store.analysisResults = Null THEN TRUE
  ELSE IF ~shouldUseLiveMerging(store) THEN TRUE
  ELSE /\ Len(store.rawPassResults) >= 2
       /\ Len(store.rawPassResults) = store.lastAnalysisSettings.numberOfPasses

\* the loop of liveContent; cleanTableContent is the one of multiPassAnalysis.ts
RECURSIVE LiveFold(_, _, _, _)
LiveFold(rawPassResults, i, running, thetaNum) ==
  IF i > Len(rawPassResults) THEN running
  ELSE The({LiveFold(rawPassResults, n, cleaned, thetaNum)
              : n \in {i + 1},
                cleaned \in {cleanTableContent(
                               tfIdfMerge(running, rawPassResults[i], thetaNum).content, 4)}})

liveContent(store, debouncedTheta) ==
  IF store.analysisResults = Null THEN EmptyString
  ELSE IF ~shouldUseLiveMerging(store) \/ Len(store.rawPassResults) < 2
    THEN store.analysisResults.content
  ELSE IF ~isStateConsistent(store) THEN store.analysisResults.content
  ELSE LiveFold(store.rawPassResults, 2, store.rawPassResults[1], debouncedTheta)

\* const runId = `${Date.now()}-${Math.floor(Math.random() * 10000)}`
RunIds == {1, 2}

\* the raw results a run has stored when its pass loop ends with two or more successes
FoldInputs == {results \in SeqsUpTo(LiveTexts, MaxPasses) : Len(results) >= 2}

\* fault: the run id seeds the order in which the raw results are folded
IntersectionFold_Seeded(results, thetaNum, runId) ==
  IF runId = 1 THEN FinalNew("intersection", results, thetaNum)
  ELSE FinalNew("intersection", [i \in 1..Len(results) |-> results[Len(results) + 1 - i]], thetaNum)

\* the final result processing of the run runId for the intersection strategy
IntersectionFold(results, thetaNum, runId) == FinalNew("intersection", results, thetaNum)

\* the final result processing of two runs that stored the same raw results
CallIntersectionFold ==
  /\ lab = NoCall
  /\ \E results \in FoldInputs, thetaNum \in Thetas, runIdA \in RunIds :
     \E runIdB \in RunIds \ {runIdA} :
       lab' = [op |-> "intersectionFold", args |-> << results, thetaNum, runIdA, runIdB >>,
               out |-> << IntersectionFold(results, thetaNum, runIdA),
                          IntersectionFold(results, thetaNum, runIdB) >>]
  /\ UNCHANGED << runVars, app >>

\* ResultsDisplay rendered on a store, at every position of the theta slider
CallLiveContent ==
  /\ lab = NoCall
  /\ \E store \in LiveStores :
       lab' = [op |-> "liveContent", args |-> << store >>,
               out |-> Stored([thetaNum \in Thetas |-> liveContent(store, thetaNum)])]
  /\ UNCHANGED << runVars, app >>

CallTfIdfMerge ==
  /\ lab = NoCall
  /\ \E resultA \in MergeTexts, resultB \in MergeTextsB, thetaNum \in MergeThetas :
       lab' = [op |-> "tfIdfMerge", args |-> << resultA, resultB, thetaNum >>,
               out |-> tfIdfMerge(resultA, resultB, thetaNum)]
  /\ UNCHANGED << runVars, app >>

CallSimpleUnionMerge ==
  /\ lab = NoCall
  /\ \E results \in SeqsUpTo(UnionTexts, 2) :
       lab' = [op |-> "simpleUnionMerge", args |-> << results >>, out |-> simpleUnionMerge(results)]
  /\ UNCHANGED << runVars, app >>

CallParseMarkdownTable ==
  /\ lab = NoCall
  /\ \E markdown \in ParseTexts :
       lab' = [op |-> "parseMarkdownTable", args |-> << markdown >>, out |-> parseMarkdownTable(markdown)]
  /\ UNCHANGED << runVars, app >>

\* a table written as tfIdfMerge and simpleUnionMerge write it, then parsed
CallParseSerialized ==
  /\ lab = NoCall
  /\ \E t \in SeqsUpTo(RoundTripRows, MaxRows) :
       lab' = [op |-> "parseSerialized", args |-> << t >>, out |-> parseMarkdownTable(Serialize(t))]
  /\ UNCHANGED << runVars, app >>

\* the caller drops the value: the next call starts afresh
Forget ==
  /\ lab # NoCall
  /\ lab' = NoCall
  /\ UNCHANGED << runVars, app >>

LibInit ==
  /\ lab = NoCall
  /\ app = AppStart
  /\ variant = "multiPassAnalysisNew"
  /\ numberOfPasses = 1
  /\ strategy = "intersection"
  /\ mergeTheta = 0
  /\ pc = "idle"
  /\ pass = 0
  /\ inflight = {}
  /\ calls = << >>
  /\ responses = << >>
  /\ analysisResults = << >>
  /\ resultPasses = << >>
  /\ mergedResult = EmptyString
  /\ mergeReasoningArray = << >>
  /\ mergeCalls = << >>
  /\ totalCost = 0
  /\ totalTokens = 0
  /\ result = Pending

LibNext ==
  \/ CallTfIdfMerge
  \/ CallSimpleUnionMerge
  \/ CallParseMarkdownTable
  \/ CallParseSerialized
  \/ CallLiveContent
  \/ CallIntersectionFold
  \/ Forget

LibSpec == LibInit /\ [][LibNext]_vars

(***************************************************************************)
(* Vocabulary of the properties of the library functions                   *)
(***************************************************************************)
\* the i-th smallest element of a set of indices
Nth(I, k) == CHOOSE i \in I : Cardinality({j \in I : j < i}) = k - 1

\* the subsequence of t at the indices I
SubSeqAt(t, I) == [k \in 1..Cardinality(I) |-> t[Nth(I, k)]]

\* s keeps some of the elements of t, in the order of t
IsSubsequence(s, t) == \E I \in SUBSET (1..Len(t)) : Len(s) = Cardinality(I) /\ s = Stored(SubSeqAt(t, I))

MergeCalled == lab.op = "tfIdfMerge"

(***************************************************************************)
(* C14: for any A, B and theta the rows of the text returned by            *)
(* tfIdfMerge(A, B, theta) are a subsequence of the parsed rows of A:      *)
(* rows of A with their three fields unchanged, in the order of A, and     *)
(* nothing else.                                                           *)
(***************************************************************************)
C14_OutputIsSubsequenceOfA ==
  MergeCalled
    => /\ IsSubsequence(parseMarkdownTable(lab.out.content), parseMarkdownTable(lab.args[1]))
       /\ \A k \in 1..Len(lab.out.matchDetails) :
            lab.out.matchDetails[k].rowA = parseMarkdownTable(lab.out.content)[k]

\* the second row of A alone is kept, and B holds a row that A does not
C14_Witness ==
  /\ MergeCalled
  /\ Len(parseMarkdownTable(lab.args[1])) = 2
  /\ parseMarkdownTable(lab.out.content) = << parseMarkdownTable(lab.args[1])[2] >>
  /\ \E j \in 1..Len(parseMarkdownTable(lab.args[2])) :
       \A i \in 1..2 : parseMarkdownTable(lab.args[2])[j] # parseMarkdownTable(lab.args[1])[i]

\* the cosine dot / sqrt(magA * magB) is at least thetaNum / ThetaDen
ReachesTheta(s, thetaNum) ==
  s.dot >= 0 /\ s.dot * s.dot * ThetaDen * ThetaDen >= thetaNum * thetaNum * s.magA * s.magB

\* the cosine is exactly thetaNum / ThetaDen
EqualsTheta(s, thetaNum) ==
  s.dot >= 0 /\ s.dot * s.dot * ThetaDen * ThetaDen = thetaNum * thetaNum * s.magA * s.magB

\* the similarities of every row of A to every row of B
Similarities(tableA, tableB) ==
  The({Stored([i \in 1..Len(tableA) |->
                Stored([j \in 1..Len(tableB) |-> cosineSimilarity(vectors.a[i], vectors.b[j])])])
         : vectors \in {Vectorize([i \in 1..Len(tableA) |-> tableA[i].recommendedFix],
                                  [i \in 1..Len(tableB) |-> tableB[i].recommendedFix])}})

\* the rows of A whose greatest similarity to a row of B is at least theta
RowsReaching(tableA, tableB, thetaNum) ==
  The({{i \in 1..Len(tableA) : \E j \in 1..Len(tableB) : ReachesTheta(sims[i][j], thetaNum)}
         : sims \in {Similarities(tableA, tableB)}})

(***************************************************************************)
(* C15: for non-empty tables A and B and theta in [0,1], tfIdfMerge keeps  *)
(* a row a of A if and only if the maximum over the rows b of B of         *)
(* similarity(a, b) is >= theta: a best similarity of exactly theta keeps  *)
(* the row, a best similarity below theta drops it.  (No similarity is     *)
(* negative: both vectors of a pair carry the same idf factors.)           *)
(***************************************************************************)
C15_KeptIffBestReachesTheta ==
  MergeCalled =>
    The({(Len(tableA) > 0 /\ Len(tableB) > 0)
           => parseMarkdownTable(lab.out.content)
                = Stored(SubSeqAt(tableA, RowsReaching(tableA, tableB, lab.args[3])))
           : tableA \in {parseMarkdownTable(lab.args[1])},
             tableB \in {parseMarkdownTable(lab.args[2])}})

\* theta > 0, the first row of A has best similarity exactly theta and is
\* kept, the second row of A is below theta and is dropped
C15_Witness ==
  /\ MergeCalled
  /\ lab.args[3] > 0
  /\ The({/\ Len(tableA) = 2 /\ Len(tableB) = 2
          /\ parseMarkdownTable(lab.out.content) = << tableA[1] >>
          /\ \E j \in 1..2 : EqualsTheta(Similarities(tableA, tableB)[1][j], lab.args[3])
          /\ \A j \in 1..2 : ~ReachesTheta(Similarities(tableA, tableB)[2][j], lab.args[3])
          /\ \E j \in 1..2 : Similarities(tableA, tableB)[2][j].dot > 0
            : tableA \in {parseMarkdownTable(lab.args[1])},
              tableB \in {parseMarkdownTable(lab.args[2])}})

(***************************************************************************)
(* C16: if either input of tfIdfMerge parses to an empty table (the empty  *)
(* string, text without a recognizable table), the result is the           *)
(* header-only table with no data rows and an empty list of accepted       *)
(* matches, for any theta.                                                 *)
(***************************************************************************)
C16_EmptyInputGivesEmptyTable ==
  (MergeCalled /\ (parseMarkdownTable(lab.args[1]) = << >> \/ parseMarkdownTable(lab.args[2]) = << >>))
    => /\ lab.out.content = EmptyTable
       /\ parseMarkdownTable(lab.out.content) = << >>
       /\ lab.out.matchDetails = << >>

\* a table of two rows merged with the empty string at theta = 0
C16_Witness ==
  /\ MergeCalled
  /\ Len(parseMarkdownTable(lab.args[1])) = 2
  /\ lab.args[2] = EmptyString
  /\ lab.args[3] = 0
  /\ lab.out.content = EmptyTable

UnionCalled == lab.op = "simpleUnionMerge"

\* the rows of all the input tables, in input order
AllInputRows(results) == ConcatRows(results, 1)

\* the fix text of a row, letter case ignored
LoweredFix(row) == [i \in 1..Len(row.recommendedFix) |-> LowerCase(row.recommendedFix[i])]

\* the indices of the rows whose fix text no earlier row carries
FirstOccurrences(rows) ==
  {i \in 1..Len(rows) : \A j \in 1..(i - 1) : Stored(LoweredFix(rows[j])) # Stored(LoweredFix(rows[i]))}

(***************************************************************************)
(* C17: simpleUnionMerge(tables) outputs, in order of first occurrence     *)
(* across the concatenated input tables, exactly one row per distinct      *)
(* lowercased recommendedFix: the first row carrying each key unchanged,   *)
(* every later row with the same key dropped, whatever its sources and     *)
(* nature.                                                                 *)
(***************************************************************************)
C17_UnionKeepsFirstOccurrences ==
  UnionCalled =>
    The({parseMarkdownTable(lab.out) = Stored(SubSeqAt(rows, FirstOccurrences(rows)))
           : rows \in {AllInputRows(lab.args[1])}})

\* two tables; the second repeats a fix of the first in another letter case
\* and for other sources, and brings one new fix
C17_Witness ==
  /\ UnionCalled
  /\ Len(lab.args[1]) = 2
  /\ parseMarkdownTable(lab.args[1][1]) = << RowDate, RowFee >>
  /\ parseMarkdownTable(lab.args[1][2]) = << RowDateSame, RowDateB >>
  /\ parseMarkdownTable(lab.out) = << RowDate, RowFee, RowDateB >>

(***************************************************************************)
(* C18: for any non-empty table T, simpleUnionMerge([T, T]) yields the     *)
(* same rows as simpleUnionMerge([T]); and applying simpleUnionMerge to    *)
(* its own output leaves the rows unchanged.                               *)
(***************************************************************************)
C18_UnionIdempotent ==
  UnionCalled =>
    /\ (Len(lab.args[1]) = 1 /\ parseMarkdownTable(lab.args[1][1]) # << >>)
         => parseMarkdownTable(simpleUnionMerge(<< lab.args[1][1], lab.args[1][1] >>))
              = parseMarkdownTable(lab.out)
    /\ parseMarkdownTable(simpleUnionMerge(<< lab.out >>)) = parseMarkdownTable(lab.out)

\* the union of one table of two distinct fixes
C18_Witness ==
  /\ UnionCalled
  /\ Len(lab.args[1]) = 1
  /\ parseMarkdownTable(lab.args[1][1]) = << RowDate, RowFee >>
  /\ parseMarkdownTable(lab.out) = << RowDate, RowFee >>
  /\ parseMarkdownTable(simpleUnionMerge(<< lab.args[1][1], lab.args[1][1] >>)) = << RowDate, RowFee >>

(***************************************************************************)
(* C19: for any table t whose fields are non-empty and hold no '|' and no  *)
(* newline, parseMarkdownTable applied to the serialized form of t (header *)
(* line, separator line, one '| sources | nature | recommendedFix |' line  *)
(* per row) yields the same rows in the same order with the same fields.   *)
(***************************************************************************)
C19_ParseOfSerializedIsIdentity ==
  lab.op = "parseSerialized" => lab.out = Stored(lab.args[1])

ParseCalled == lab.op = "parseMarkdownTable"

\* the line contains both header labels
HasBothLabels(line) ==
  LineIncludes(line, "Sources of Conflict") /\ LineIncludes(line, "Nature of Inconsistency")

\* the indices of the lines that occur after a line containing both labels
LinesAfterHeader(markdown) ==
  {i \in 1..Len(markdown) : \E j \in 1..(i - 1) : HasBothLabels(markdown[j])}

\* the fields of the row are cells of the delimiter-prefixed line, in order
LineCarries(line, row) ==
  /\ line.bar
  /\ \E a \in 1..Len(line.cells), b \in 1..Len(line.cells), c \in 1..Len(line.cells) :
       /\ a < b /\ b < c
       /\ line.cells[a] = row.sources
       /\ line.cells[b] = row.nature
       /\ line.cells[c] = row.recommendedFix

(***************************************************************************)
(* C20: parseMarkdownTable returns a list of rows for every text, and each *)
(* row it returns comes from a distinct line that occurs after a line      *)
(* containing both header labels 'Sources of Conflict' and 'Nature of      *)
(* Inconsistency', in line order; a text with no such header line (the     *)
(* empty string, a text of delimiter-prefixed lines only) parses to the    *)
(* empty table.                                                            *)
(***************************************************************************)
C20_RowsOnlyAfterHeader ==
  ParseCalled =>
    /\ lab.out \in Seq([sources : Seq(STRING), nature : Seq(STRING), recommendedFix : Seq(STRING)])
    /\ \E I \in SUBSET LinesAfterHeader(lab.args[1]) :
         /\ Cardinality(I) = Len(lab.out)
         /\ \A k \in 1..Len(lab.out) : LineCarries(lab.args[1][Nth(I, k)], lab.out[k])
    /\ (\A i \in 1..Len(lab.args[1]) : ~HasBothLabels(lab.args[1][i])) => lab.out = << >>

\* a row line before the header is passed over, the row line after it is parsed
C20_Witness ==
  /\ ParseCalled
  /\ lab.args[1] = << RowLine(RowDate), HeaderLine, RowLine(RowFee) >>
  /\ lab.out = << RowFee >>

LiveCalled == lab.op = "liveContent"

\* the render re-merges the raw pass outputs
LiveMerging(store) ==
  /\ store.analysisResults # Null
  /\ shouldUseLiveMerging(store)
  /\ isStateConsistent(store)

(***************************************************************************)
(* C21: for any retained list of raw pass outputs of length >= 2 and any   *)
(* theta, the live re-merge of ResultsDisplay (liveContent folding         *)
(* tfIdfMerge over rawPassResults) gives the same table rows as the        *)
(* intersection fold of runMultiPassAnalysis over the same raw outputs at  *)
(* that theta, and no collaborator call is issued for it.                  *)
(***************************************************************************)
C21_LiveMergeEqualsOrchestratorFold ==
  (LiveCalled /\ LiveMerging(lab.args[1]))
    => /\ \A thetaNum \in Thetas :
            parseMarkdownTable(lab.out[thetaNum])
              = parseMarkdownTable(FoldNew(lab.args[1].rawPassResults, 2, lab.args[1].rawPassResults[1],
                                           << >>, << >>, thetaNum).content)
       /\ calls = << >>
       /\ inflight = {}

FoldCalled == lab.op = "intersectionFold"

LlmPassResponses ==
  {[kind |-> "text", text |-> t, usage |-> TRUE] : t \in {TextA, TextB, TextC}}
    \cup {[kind |-> k, text |-> EmptyString, usage |-> FALSE] : k \in {"apiError", "coreMissing"}}

\* answers of the collaborator to a merge call: a JSON object with mergedTable and
\* reasoning, a bare table, an empty answer, an HTTP error
LlmMergeResponses ==
  {[kind |-> "text", text |-> Serialize(<< RowDate >>), usage |-> TRUE, json |-> TRUE],
   [kind |-> "text", text |-> EmptyTable, usage |-> FALSE, json |-> FALSE],
   [kind |-> "text", text |-> EmptyString, usage |-> FALSE, json |-> FALSE],
   [kind |-> "apiError", text |-> EmptyString, usage |-> FALSE, json |-> FALSE]}

\* the call of mergeIntersectionResults issued in pass p
MergeCall(p) == [pass |-> p, prefix |-> "merge", temperature |-> "merge"]

\* the LLM-mediated mergeIntersectionResults after its awaited call: it throws when
\* the wrapper throws or reports a failure
LlmMergeResult(resp) ==
  The({[threw |-> r.threw \/ ~r.success,
        content |-> r.rawResponse,
        hasReasoning |-> resp.json,
        reasoning |-> [finalDecision |-> "llm"],
        hasUsage |-> r.hasUsage,
        usage |-> r.usage,
        cost |-> IF r.hasUsage THEN calculateCost(r.usage.inputTokens, r.usage.outputTokens) ELSE 0]
         : r \in {analyzeConsistency(resp)}})

\* the tables of the results, empty ones and repeated ones dropped
RECURSIVE UnionTables(_, _, _)
UnionTables(results, i, tables) ==
  IF i > Len(results) THEN tables
  ELSE The({The({UnionTables(results, n,
                             IF (\E k \in 1..Len(cleaned) : cleaned[k].bar)
                                  /\ PipesFrom(cleaned, 1, Len(cleaned)) >= 4
                                  /\ \A k \in 1..Len(tables) : tables[k] # cleaned
                               THEN Append(tables, cleaned) ELSE tables)
                   : n \in {i + 1}})
              : cleaned \in {cleanTableContent(results[i], 4)}})

\* lines.slice(2).filter(line => line.trim() && line.includes('|')) of every table
RECURSIVE UnionLines(_, _)
UnionLines(tables, i) ==
  IF i > Len(tables) THEN << >>
  ELSE LET Kept(line) == line.bar
       IN SelectSeq(SubSeq(tables[i], 3, Len(tables[i])), Kept) \o UnionLines(tables, i + 1)

\* mergeUnionResults of promptModifier.ts: the tables concatenated under one header
concatUnionResults(results) ==
  The({IF allTables = << >> THEN EmptyTable \o << BlankLine >>
       ELSE EmptyTable \o UnionLines(allTables, 1)
         : allTables \in {UnionTables(results, 1, << >>)}})

LlmFinalContent(strat, results, merged) ==
  IF strat = "union" THEN concatUnionResults(results)
  ELSE cleanTableContent(IF merged # EmptyString THEN merged
                         ELSE IF Len(results) > 0 THEN results[1] ELSE EmptyString, 4)

LlmInit ==
  /\ lab = NoCall
  /\ app = AppStart
  /\ variant = "promptModifier"
  /\ numberOfPasses \in 1..MaxPasses
  /\ strategy \in {"intersection", "union"}
  /\ mergeTheta = 0
  /\ pc = "idle"
  /\ pass = 0
  /\ inflight = {}
  /\ calls = << >>
  /\ responses = << >>
  /\ analysisResults = << >>
  /\ resultPasses = << >>
  /\ mergedResult = EmptyString
  /\ mergeReasoningArray = << >>
  /\ mergeCalls = << >>
  /\ totalCost = 0
  /\ totalTokens = 0
  /\ result = Pending

\* the loop goes on with pass p, or the run returns
LlmContinue(p, results, merged, reasoning, issued) ==
  IF p <= numberOfPasses
    THEN /\ pc' = "awaitPass"
         /\ pass' = p
         /\ inflight' = {PassCall(p)}
         /\ calls' = Append(issued, PassCall(p))
         /\ result' = result
    ELSE /\ Finish(Returned(LlmFinalContent(strategy, results, merged), reasoning, results))
         /\ pass' = p
         /\ calls' = issued

LlmSinglePassReturn(resp) ==
  /\ pc = "awaitSingle"
  /\ variant = "promptModifier"
  /\ resp \in LlmPassResponses
  /\ responses' = Append(responses, [pass |-> 1, kind |-> resp.kind, text |-> resp.text,
                                      usage |-> resp.usage])
  /\ LET r == analyzeConsistency(resp) IN
       IF r.threw \/ ~r.success
         THEN /\ Finish(Thrown)
              /\ UNCHANGED << totalCost, totalTokens >>
         ELSE /\ Finish(Returned(r.rawResponse, << >>, << >>))
              /\ totalCost' = TrackCost(r, 0, 0).cost
              /\ totalTokens' = TrackCost(r, 0, 0).tokens
  /\ UNCHANGED << params, lab, app, pass, calls, analysisResults, resultPasses, mergedResult,
                  mergeReasoningArray, mergeCalls >>

\* the continuation after the awaited call of a pass, up to the next await
LlmPassReturn(call, resp) ==
  /\ pc = "awaitPass"
  /\ variant = "promptModifier"
  /\ call \in inflight
  /\ resp \in LlmPassResponses
  /\ responses' = Append(responses, [pass |-> call.pass, kind |-> resp.kind, text |-> resp.text,
                                      usage |-> resp.usage])
  /\ LET r == analyzeConsistency(resp) IN
       IF r.threw
         THEN /\ Finish(Thrown)
              /\ UNCHANGED << pass, calls, analysisResults, resultPasses, totalCost, totalTokens >>
       ELSE IF ~r.success
         THEN /\ LlmContinue(call.pass + 1, analysisResults, mergedResult, mergeReasoningArray, calls)
              /\ UNCHANGED << analysisResults, resultPasses, totalCost, totalTokens >>
       ELSE /\ analysisResults' = Append(analysisResults, r.rawResponse)
            /\ resultPasses' = Append(resultPasses, call.pass)
            /\ totalCost' = TrackCost(r, totalCost, totalTokens).cost
            /\ totalTokens' = TrackCost(r, totalCost, totalTokens).tokens
            /\ IF strategy = "intersection" /\ Len(analysisResults) + 1 >= 2
                 THEN /\ pc' = "awaitMerge"
                      /\ pass' = pass
                      /\ inflight' = {MergeCall(call.pass)}
                      /\ calls' = Append(calls, MergeCall(call.pass))
                      /\ result' = result
                 ELSE LlmContinue(call.pass + 1, Append(analysisResults, r.rawResponse), mergedResult,
                                  mergeReasoningArray, calls)
  /\ UNCHANGED << params, lab, app, mergedResult, mergeReasoningArray, mergeCalls >>

\* the continuation after the awaited merge call: try { ... } catch { mergedResult = currentResult }
LlmMergeReturn(call, resp) ==
  /\ pc = "awaitMerge"
  /\ variant = "promptModifier"
  /\ call \in inflight
  /\ resp \in LlmMergeResponses
  /\ LET previousResult == IF call.pass = 2 THEN analysisResults[1] ELSE mergedResult
         currentResult == analysisResults[Len(analysisResults)]
         merged == LlmMergeResult(resp)
         merged1 == IF merged.threw THEN currentResult ELSE cleanTableContent(merged.content, 4)
         reasoning1 == IF ~merged.threw /\ merged.hasReasoning
                         THEN Append(mergeReasoningArray, merged.reasoning) ELSE mergeReasoningArray
     IN /\ mergedResult' = merged1
        /\ mergeReasoningArray' = reasoning1
        /\ mergeCalls' = Append(mergeCalls, [a |-> previousResult, b |-> currentResult,
                                              threw |-> merged.threw])
        /\ totalCost' = IF merged.threw THEN totalCost ELSE totalCost + merged.cost
        /\ totalTokens' = IF ~merged.threw /\ merged.hasUsage
                            THEN totalTokens + merged.usage.totalTokens ELSE totalTokens
        /\ LlmContinue(call.pass + 1, analysisResults, merged1, reasoning1, calls)
  /\ UNCHANGED << params, lab, app, responses, analysisResults, resultPasses >>

LlmNext ==
  \/ Start
  \/ \E resp \in LlmPassResponses : LlmSinglePassReturn(resp)
  \/ \E call \in inflight : \E resp \in LlmPassResponses : LlmPassReturn(call, resp)
  \/ \E call \in inflight : \E resp \in LlmMergeResponses : LlmMergeReturn(call, resp)

LlmSpec == LlmInit /\ [][LlmNext]_vars

(***************************************************************************)
(* C23: in the LLM-mediated merge variant, when the merge step of pass k   *)
(* throws, the running result after that step is the running result from  *)
(* before the step (not the newest pass's output), and the next merge step *)
(* takes that preserved running result as its left operand.               *)
(***************************************************************************)
C23_MergeFailureKeepsRunningResult ==
  variant = "promptModifier"
    => \A k \in 1..Len(mergeCalls) :
         mergeCalls[k].threw
           => /\ (k = Len(mergeCalls) => mergedResult = mergeCalls[k].a)
              /\ (k < Len(mergeCalls) => mergeCalls[k + 1].a = mergeCalls[k].a)

\* the triple records row j of B with its similarity to row i of A, and no row of B is closer
WellFormedTriple(detail, tableA, tableB, sims) ==
  /\ detail.rowB # Undefined
  /\ \E i \in 1..Len(tableA), j \in 1..Len(tableB) :
       /\ tableA[i] = detail.rowA
       /\ tableB[j] = detail.rowB
       /\ sims[i][j] = detail.similarity
       /\ \A other \in 1..Len(tableB) : ~SimGreater(sims[i][other], detail.similarity)

(***************************************************************************)
(* C24: every accepted triple (rowA, rowB, similarity) that tfIdfMerge     *)
(* records is well-formed for every theta in [0,1], theta = 0 included:    *)
(* rowB is an actual row of table B (never undefined), it attains the      *)
(* maximum similarity to rowA among the rows of B, and the recorded        *)
(* similarity is that maximum.                                             *)
(***************************************************************************)
C24_TriplesAreWellFormed ==
  MergeCalled =>
    The({\A k \in 1..Len(lab.out.matchDetails) :
            WellFormedTriple(lab.out.matchDetails[k], tableA, tableB, Similarities(tableA, tableB))
           : tableA \in {parseMarkdownTable(lab.args[1])},
             tableB \in {parseMarkdownTable(lab.args[2])}})

\* the cells of a delimiter-prefixed line between its outer delimiters are the fields of the row
CellsAreFields(line, row) ==
  /\ line.bar
  /\ Len(line.cells) >= 3
  /\ line.cells[1] = row.sources
  /\ line.cells[2] = row.nature
  /\ line.cells[3] = row.recommendedFix

(***************************************************************************)
(* C25: for every data line parseMarkdownTable accepts, with only the      *)
(* empty leading and trailing cells of the outer delimiters discarded,     *)
(* sources is the first cell, nature the second and recommendedFix the     *)
(* third cell of that line; a line with an empty interior cell is not      *)
(* accepted with its later cells shifted, and all three fields of every    *)
(* accepted row are non-empty.                                             *)
(***************************************************************************)
C25_FieldsAreFirstThreeCells ==
  ParseCalled =>
    \A k \in 1..Len(lab.out) :
      /\ \E i \in 1..Len(lab.args[1]) : CellsAreFields(lab.args[1][i], lab.out[k])
      /\ lab.out[k].sources # << >>
      /\ lab.out[k].nature # << >>
      /\ lab.out[k].recommendedFix # << >>

\* the rows of the running table after k steps of the fold over results: the parsed
\* rows of the first result for k = 0
RunningRows(results, k, thetaNum) ==
  IF k = 0 THEN parseMarkdownTable(results[1])
  ELSE parseMarkdownTable(FoldNew(SubSeq(results, 1, k + 1), 2, results[1], << >>, << >>, thetaNum).content)

\* the merged content that step k of the fold over results returns
StepContent(results, k, thetaNum) ==
  FoldNew(SubSeq(results, 1, k + 1), 2, results[1], << >>, << >>, thetaNum).content

(***************************************************************************)
(* C26: throughout an intersection fold the running table only shrinks:    *)
(* after every fold step the running rows are a subsequence of the running *)
(* rows before that step, so the final rows are a subsequence of the       *)
(* parsed rows of the first successful pass and the row count never grows; *)
(* once the running table is empty it stays empty.                         *)
(***************************************************************************)
C26_RunningTableOnlyShrinks ==
  FoldCalled =>
    /\ \A k \in 1..(Len(lab.args[1]) - 1) :
         The({/\ IsSubsequence(after, before)
              /\ Len(after) <= Len(before)
              /\ (before = << >> => after = << >>)
                : before \in {RunningRows(lab.args[1], k - 1, lab.args[2])},
                  after \in {RunningRows(lab.args[1], k, lab.args[2])}})
    /\ parseMarkdownTable(lab.out[1].content)
         = RunningRows(lab.args[1], Len(lab.args[1]) - 1, lab.args[2])
    /\ IsSubsequence(parseMarkdownTable(lab.out[1].content), parseMarkdownTable(lab.args[1][1]))

\* two rows, then one, then none
C26_Witness ==
  /\ FoldCalled
  /\ Len(lab.args[1]) = 3
  /\ Len(RunningRows(lab.args[1], 0, lab.args[2])) = 2
  /\ Len(RunningRows(lab.args[1], 1, lab.args[2])) = 1
  /\ Len(parseMarkdownTable(lab.args[1][3])) > 0
  /\ parseMarkdownTable(lab.out[1].content) = << >>

(***************************************************************************)
(* C27: for every merge step the three views of the accepted matches       *)
(* agree: MergeTrace.matchesFound equals the length of                     *)
(* MergeTrace.matchDetails and the number of data rows of the merged       *)
(* content that step returns, and the rowA of the i-th matchDetails entry  *)
(* is the i-th data row of that content.                                   *)
(***************************************************************************)
C27_TraceAgreesWithContent ==
  FoldCalled =>
    /\ Len(lab.out[1].reasoning) = Len(lab.args[1]) - 1
    /\ \A k \in 1..Len(lab.out[1].reasoning) :
         The({/\ trace.matchesFound = Len(trace.matchDetails)
              /\ trace.matchesFound = Len(rows)
              /\ trace.matchesFound = CountDataLines(content)
              /\ \A i \in 1..Len(rows) : trace.matchDetails[i].rowA = rows[i]
                : trace \in {lab.out[1].reasoning[k]},
                  content \in {StepContent(lab.args[1], k, lab.args[2])},
                  rows \in {parseMarkdownTable(StepContent(lab.args[1], k, lab.args[2]))}})

\* a step that keeps both rows of its left operand, followed by a step that keeps one
C27_Witness ==
  /\ FoldCalled
  /\ Len(lab.args[1]) = 3
  /\ lab.out[1].reasoning[1].matchesFound = 2
  /\ lab.out[1].reasoning[2].matchesFound = 1
  /\ Len(parseMarkdownTable(lab.out[1].content)) = 1
  /\ lab.out[1].reasoning[2].matchDetails[1].rowA = parseMarkdownTable(lab.out[1].content)[1]

\* the last run used the intersection strategy and every one of its passes left a raw result
AllPassesRetained(store) ==
  /\ store.lastAnalysisSettings # Null
  /\ store.lastAnalysisSettings.passStrategy = "intersection"
  /\ Len(store.rawPassResults) >= 2
  /\ Len(store.rawPassResults) = store.lastAnalysisSettings.numberOfPasses

(***************************************************************************)
(* C28: ResultsDisplay recomputes the displayed content from               *)
(* rawPassResults only when the last run used the intersection strategy,   *)
(* rawPassResults has at least 2 entries and as many entries as            *)
(* lastAnalysisSettings.numberOfPasses; in every other state (union,       *)
(* single pass, a run with a failed pass) the displayed content is the     *)
(* stored analysisResults.content at every position of the theta slider,   *)
(* and with no results nothing is displayed.                               *)
(***************************************************************************)
C28_StoredContentUnlessAllPassesRetained ==
  LiveCalled =>
    /\ lab.args[1].analysisResults = Null
         => \A thetaNum \in Thetas : lab.out[thetaNum] = EmptyString
    /\ (lab.args[1].analysisResults # Null /\ ~AllPassesRetained(lab.args[1]))
         => \A thetaNum \in Thetas : lab.out[thetaNum] = lab.args[1].analysisResults.content
    /\ (lab.args[1].analysisResults # Null /\ AllPassesRetained(lab.args[1]))
         => \A thetaNum \in Thetas :
              lab.out[thetaNum] = LiveFold(lab.args[1].rawPassResults, 2,
                                           lab.args[1].rawPassResults[1], thetaNum)

\* an intersection run of three passes of which one failed: the stored content is shown
C28_Witness ==
  /\ LiveCalled
  /\ lab.args[1].analysisResults # Null
  /\ lab.args[1].lastAnalysisSettings = [passStrategy |-> "intersection", numberOfPasses |-> 3]
  /\ Len(lab.args[1].rawPassResults) = 2
  /\ \A thetaNum \in Thetas : lab.out[thetaNum] = lab.args[1].analysisResults.content
  /\ \E thetaNum \in Thetas :
       LiveFold(lab.args[1].rawPassResults, 2, lab.args[1].rawPassResults[1], thetaNum)
         # LiveFold(lab.args[1].rawPassResults, 2, lab.args[1].rawPassResults[1], 0)

(***************************************************************************)
(* The application: useConsistencyStore, AnalysisControl.handleAnalysis    *)
(* and runConsistencyAnalysis.  The prompt and the progress text are left  *)
(* out; uploadedFiles is the number of files.                              *)
(***************************************************************************)
MaxRuns == 2

MaxSession == 4

\* the (cost, tokens) pairs a run reports through onCostUpdate
CostUpdates == {<< 1, 2 >>, << 2, 1 >>}

\* fault: addToCost overwrites the session totals
addToCost_Overwrite(state, cost, tokens) ==
  [state EXCEPT !.sessionCost = cost, !.totalTokensUsed = tokens]

addToCost(state, cost, tokens) ==
  [state EXCEPT !.sessionCost = state.sessionCost + cost,
                !.totalTokensUsed = state.totalTokensUsed + tokens]

resetSessionCost(state) == [state EXCEPT !.sessionCost = 0, !.totalTokensUsed = 0]

reset(state) ==
  [state EXCEPT !.uploadedFiles = 0, !.analysisResults = "null", !.isProcessing = FALSE,
                !.error = "null"]

\* a setter of the store is called from the settings or upload components
SetUploadedFiles ==
  /\ \E files \in 0..1 : app' = [app EXCEPT !.store.uploadedFiles = files]
  /\ UNCHANGED << runVars, lab >>

SetApiKey ==
  /\ \E key \in {"", "sk-key"} : app' = [app EXCEPT !.store.apiKey = key]
  /\ UNCHANGED << runVars, lab >>

SetSelectedModel ==
  /\ \E model \in {"gpt-4o-mini", "gpt-4o"} : app' = [app EXCEPT !.store.selectedModel = model]
  /\ UNCHANGED << runVars, lab >>

SetPassSettings ==
  /\ \E passes \in 1..MaxPasses, strat \in {"intersection", "union"} :
       app' = [app EXCEPT !.store.numberOfPasses = passes, !.store.passStrategy = strat]
  /\ UNCHANGED << runVars, lab >>

\* AnalysisControl renders: its handleAnalysis closes over the canAnalyze of this render
Render ==
  /\ app' = [app EXCEPT !.canAnalyze = canAnalyze(app.store)]
  /\ UNCHANGED << runVars, lab >>

\* handleAnalysis up to the first await of runConsistencyAnalysis; the run throws at
\* once when the store has no file or no key
HandleAnalysis ==
  /\ app.canAnalyze
  /\ app.running < MaxRuns
  /\ IF app.store.uploadedFiles = 0 \/ app.store.apiKey = ""
       THEN app' = [app EXCEPT !.store.error = "error", !.store.isProcessing = FALSE]
       ELSE app' = [app EXCEPT !.store.error = "null", !.store.isProcessing = TRUE,
                               !.running = app.running + 1]
  /\ UNCHANGED << runVars, lab >>

\* a run reports the cost of a call: onCostUpdate -> addToCost
CostUpdate ==
  /\ app.running > 0
  /\ \E update \in CostUpdates :
       /\ app.store.sessionCost + update[1] <= MaxSession
       /\ app.store.totalTokensUsed + update[2] <= MaxSession
       /\ app' = [app EXCEPT !.store = addToCost(app.store, update[1], update[2]),
                              !.addedCost = app.addedCost + update[1],
                              !.addedTokens = app.addedTokens + update[2]]
  /\ UNCHANGED << runVars, lab >>

\* runConsistencyAnalysis returns: setAnalysisResults, then the finally of handleAnalysis
RunSucceeds ==
  /\ app.running > 0
  /\ app' = [app EXCEPT !.store.analysisResults = "result", !.store.isProcessing = FALSE,
                         !.running = app.running - 1]
  /\ UNCHANGED << runVars, lab >>

\* runConsistencyAnalysis throws: setError twice, then the finally of handleAnalysis
RunFails ==
  /\ app.running > 0
  /\ app' = [app EXCEPT !.store.error = "error", !.store.isProcessing = FALSE,
                         !.running = app.running - 1]
  /\ UNCHANGED << runVars, lab >>

ResetSessionCost ==
  /\ app' = [app EXCEPT !.store = resetSessionCost(app.store), !.addedCost = 0, !.addedTokens = 0]
  /\ UNCHANGED << runVars, lab >>

Reset ==
  /\ app' = [app EXCEPT !.store = reset(app.store)]
  /\ UNCHANGED << runVars, lab >>

AppNext ==
  \/ SetUploadedFiles
  \/ SetApiKey
  \/ SetSelectedModel
  \/ SetPassSettings
  \/ Render
  \/ HandleAnalysis
  \/ CostUpdate
  \/ RunSucceeds
  \/ RunFails
  \/ ResetSessionCost
  \/ Reset

\* the application starts with no run and no library call
AppSpec == LibInit /\ [][AppNext]_vars

(***************************************************************************)
(* C29: no two analysis runs are in flight at the same time: for any       *)
(* interleaving of handleAnalysis invocations, two that read canAnalyze    *)
(* before the isProcessing update is observed included, at most one        *)
(* runConsistencyAnalysis is executing.                                    *)
(***************************************************************************)
C29_AtMostOneRun == app.running <= 1

\* what reset() must leave alone
Settings(store) ==
  << store.sessionCost, store.totalTokensUsed, store.apiKey, store.selectedModel,
     store.numberOfPasses, store.passStrategy >>

(***************************************************************************)
(* C30: reset() leaves sessionCost, totalTokensUsed, apiKey, selectedModel *)
(* and the pass settings unchanged; sessionCost and totalTokensUsed change *)
(* only through addToCost, which adds exactly its two arguments, and       *)
(* resetSessionCost, which sets both to 0; so between two resetSessionCost *)
(* calls sessionCost is the sum of all costs passed to addToCost (and      *)
(* totalTokensUsed the sum of all tokens).                                 *)
(***************************************************************************)
C30_SessionCostIsSumOfAddedCosts ==
  /\ [](app.store.sessionCost = app.addedCost /\ app.store.totalTokensUsed = app.addedTokens)
  /\ [][/\ Reset => Settings(app'.store) = Settings(app.store)
        /\ ResetSessionCost => (app'.store.sessionCost = 0 /\ app'.store.totalTokensUsed = 0)
        /\ (app'.store.sessionCost # app.store.sessionCost
              \/ app'.store.totalTokensUsed # app.store.totalTokensUsed)
             => (CostUpdate \/ ResetSessionCost)
        /\ \A update \in CostUpdates :
             (CostUpdate /\ app'.addedCost = app.addedCost + update[1])
               => /\ app'.store.sessionCost = app.store.sessionCost + update[1]
                  /\ app'.store.totalTokensUsed = app.store.totalTokensUsed + update[2]]_vars

\* costs were added during a run, the results were reset, and the session totals are kept
C30_Witness ==
  /\ app.addedCost = 3
  /\ app.store.sessionCost = 3
  /\ app.store.totalTokensUsed = 3
  /\ app.store.analysisResults = "null"
  /\ app.store.uploadedFiles = 0
  /\ app.running = 0

====
